---- MODULE Spec2Model ----
(***************************************************************************)
(* Model of src/audio/split.py: the cut-point planner                      *)
(* (find_optimal_cut_points), the segment writer (split_audio_file) and    *)
(* the batch driver (main and the __main__ tool check).                    *)
(*                                                                         *)
(* Timestamps are Python floats in the source; the model uses integers,    *)
(* which keep every comparison and every sum/difference the code makes.    *)
(* Three specifications share the variables:                               *)
(*   PlanSpec   one call of find_optimal_cut_points, one loop iteration    *)
(*              per step, inputs drawn in the initial state;               *)
(*   WriteSpec  one call of split_audio_file, one loop iteration per step; *)
(*   Spec       the whole program run, one external call per step.         *)
(***************************************************************************)
EXTENDS Integers, Sequences, FiniteSets

\* ---- bounds of the model ----
MaxDur == 8
MaxSil == 3
MaxMinSeg == 2
MaxMaxSeg == 3
MaxCuts == 3
MaxCutTime == 4
MaxFiles == 2

\* ---- constants of the program ----
DefaultMinSegment == 5
DefaultMaxSegment == 15
ShortFile == 15

\* Python's None for best_cut, end_time and a failed probe
\* (every timestamp of the program is >= 0).
None == -1

VARIABLES
    \* find_optimal_cut_points
    duration, silence_points, min_segment, max_segment,
    cut_points, current_start, how, iters, ppc, result,
    \* split_audio_file
    w_cut_points, start_time, segment_num, w_i, attempts, wpc,
    \* the __main__ block and main
    pc, tool_i, missing, exit_code, dir_created, wav_files, file_i,
    m_duration, m_silence_points, m_cut_points, m_attempts, log

pvars == <<duration, silence_points, min_segment, max_segment,
           cut_points, current_start, how, iters, ppc, result>>

wvars == <<w_cut_points, start_time, segment_num, w_i, attempts, wpc>>

mvars == <<pc, tool_i, missing, exit_code, dir_created, wav_files, file_i,
           m_duration, m_silence_points, m_cut_points, m_attempts, log>>

vars == <<pvars, wvars, mvars>>

\* ---- find_optimal_cut_points ----

\* ascending (not necessarily unique) sequences of at most n timestamps in 0..t
Ascending(t, n) ==
    {s \in UNION {[1..k -> 0..t] : k \in 0..n} :
        \A i \in 1..(Len(s) - 1) : s[i] <= s[i + 1]}

\* the worked inputs of the default configuration (min 5, max 15)
DefaultRuns ==
    {<<40, <<6, 11, 14, 17, 22, 28, 33>>, 5, 15>>,
     <<40, <<>>, 5, 15>>,
     <<16, <<14>>, 5, 15>>,
     <<12, <<>>, 5, 15>>}

PlanInputs ==
    {<<d, s, mn, mx>> : d \in 0..MaxDur, s \in Ascending(MaxDur, MaxSil),
                        mn \in 1..MaxMinSeg, mx \in 1..MaxMaxSeg}

\* the cap forgotten: the window closes where it opens
IdealEndAtStart(start, mx) == start

IdealEnd(start, mx) == start + mx

\* the minimum length forgotten
MinEndAtStart(start, mn) == start

MinEnd(start, mn) == start + mn

\* > for >=: a cut may land on the end of the file
LastSegmentStrict(ideal_end, d) == ideal_end > d

LastSegment(ideal_end, d) == ideal_end >= d

\* the window scan stopping at its first hit
RECURSIVE ScanWindowFirst(_, _, _, _, _)
ScanWindowFirst(sp, k, min_end, ideal_end, best) ==
    IF k > Len(sp) THEN best
    ELSE IF min_end <= sp[k] /\ sp[k] <= ideal_end THEN sp[k]
    ELSE IF sp[k] > ideal_end THEN best
    ELSE ScanWindowFirst(sp, k + 1, min_end, ideal_end, best)

\* the window scan without its upper limit
RECURSIVE ScanWindowOpen(_, _, _, _, _)
ScanWindowOpen(sp, k, min_end, ideal_end, best) ==
    IF k > Len(sp) THEN best
    ELSE IF min_end <= sp[k]
         THEN ScanWindowOpen(sp, k + 1, min_end, ideal_end, sp[k])
    ELSE ScanWindowOpen(sp, k + 1, min_end, ideal_end, best)

\* first for loop: the last silence point seen inside [min_end, ideal_end],
\* scanning in list order and stopping at the first point beyond ideal_end
RECURSIVE ScanWindow(_, _, _, _, _)
ScanWindow(sp, k, min_end, ideal_end, best) ==
    IF k > Len(sp) THEN best
    ELSE IF min_end <= sp[k] /\ sp[k] <= ideal_end
         THEN ScanWindow(sp, k + 1, min_end, ideal_end, sp[k])
    ELSE IF sp[k] > ideal_end THEN best
    ELSE ScanWindow(sp, k + 1, min_end, ideal_end, best)

\* the fallback scan without its break
RECURSIVE ScanAfterLast(_, _, _)
ScanAfterLast(sp, k, min_end) ==
    IF k > Len(sp) THEN None
    ELSE LET rest == ScanAfterLast(sp, k + 1, min_end)
         IN IF rest # None THEN rest
            ELSE IF sp[k] > min_end THEN sp[k]
            ELSE None

\* second for loop: the first silence point in list order beyond min_end
RECURSIVE ScanAfter(_, _, _)
ScanAfter(sp, k, min_end) ==
    IF k > Len(sp) THEN None
    ELSE IF sp[k] > min_end THEN sp[k]
    ELSE ScanAfter(sp, k + 1, min_end)

HardCut(ideal_end) == ideal_end

\* lines 78-95: the cut of one iteration
BestCut(sp, start, mn, mx) ==
    LET w == ScanWindow(sp, 1, MinEnd(start, mn), IdealEnd(start, mx), None)
        a == ScanAfter(sp, 1, MinEnd(start, mn))
    IN IF w # None THEN w
       ELSE IF a # None THEN a
       ELSE HardCut(IdealEnd(start, mx))

\* lines 69-98: the while loop, from cursor start with the cuts made so far
RECURSIVE PlanLoop(_, _, _, _, _, _)
PlanLoop(d, sp, mn, mx, start, cuts) ==
    IF ~(start < d) THEN cuts
    ELSE IF LastSegment(IdealEnd(start, mx), d) THEN cuts
    ELSE LET b == BestCut(sp, start, mn, mx)
         IN PlanLoop(d, sp, mn, mx, b, Append(cuts, b))

\* the whole call, as main makes it
find_optimal_cut_points(d, sp, mn, mx) ==
    IF d <= mx THEN <<>> ELSE Tail(PlanLoop(d, sp, mn, mx, 0, <<0>>))

PlanIdle ==
    /\ duration = 0
    /\ silence_points = <<>>
    /\ min_segment = DefaultMinSegment
    /\ max_segment = DefaultMaxSegment
    /\ cut_points = <<>>
    /\ current_start = 0
    /\ how = <<>>
    /\ iters = 0
    /\ ppc = "idle"
    /\ result = <<>>

WriteIdle ==
    /\ w_cut_points = <<>>
    /\ start_time = 0
    /\ segment_num = 0
    /\ w_i = 1
    /\ attempts = <<>>
    /\ wpc = "idle"

MainIdle ==
    /\ pc = "idle"
    /\ tool_i = 1
    /\ missing = {}
    /\ exit_code = None
    /\ dir_created = FALSE
    /\ wav_files = 0
    /\ file_i = 0
    /\ m_duration = None
    /\ m_silence_points = <<>>
    /\ m_cut_points = <<>>
    /\ m_attempts = <<>>
    /\ log = <<>>

PlanInit ==
    /\ \E in \in PlanInputs \cup DefaultRuns :
        /\ in[3] <= in[4]
        /\ duration = in[1]
        /\ silence_points = in[2]
        /\ min_segment = in[3]
        /\ max_segment = in[4]
    /\ cut_points = <<>>
    /\ current_start = 0
    /\ how = <<>>
    /\ iters = 0
    /\ ppc = "entry"
    /\ result = <<>>
    /\ WriteIdle
    /\ MainIdle

\* lines 63-67
PlanEnter ==
    /\ ppc = "entry"
    /\ IF duration <= max_segment
       THEN /\ ppc' = "done"
            /\ result' = <<>>
            /\ UNCHANGED <<cut_points, current_start>>
       ELSE /\ ppc' = "loop"
            /\ cut_points' = <<0>>
            /\ current_start' = 0
            /\ UNCHANGED result
    /\ UNCHANGED <<duration, silence_points, min_segment, max_segment, how, iters>>
    /\ UNCHANGED <<wvars, mvars>>

\* line 100
PlanReturn ==
    /\ ppc' = "done"
    /\ result' = Tail(cut_points)
    /\ UNCHANGED <<duration, silence_points, min_segment, max_segment,
                   cut_points, current_start, how>>
    /\ UNCHANGED <<wvars, mvars>>

\* line 69 false: the while condition ends the loop
PlanExit ==
    /\ ppc = "loop"
    /\ ~(current_start < duration)
    /\ UNCHANGED iters
    /\ PlanReturn

\* lines 69-76: the iteration that finds the last segment and breaks
PlanBreak ==
    /\ ppc = "loop"
    /\ current_start < duration
    /\ LastSegment(IdealEnd(current_start, max_segment), duration)
    /\ iters' = iters + 1
    /\ PlanReturn

\* lines 97-98
PlanAppend(best_cut, tag) ==
    /\ cut_points' = Append(cut_points, best_cut)
    /\ current_start' = best_cut
    /\ how' = Append(how, tag)
    /\ iters' = iters + 1
    /\ UNCHANGED <<duration, silence_points, min_segment, max_segment, ppc, result>>
    /\ UNCHANGED <<wvars, mvars>>

\* lines 69-76: the loop body runs and does not break
PlanIterates ==
    /\ ppc = "loop"
    /\ current_start < duration
    /\ ~LastSegment(IdealEnd(current_start, max_segment), duration)

\* lines 78-85 found a silence point in the window
PlanCutWindow ==
    /\ PlanIterates
    /\ ScanWindow(silence_points, 1, MinEnd(current_start, min_segment),
                  IdealEnd(current_start, max_segment), None) # None
    /\ PlanAppend(BestCut(silence_points, current_start, min_segment, max_segment),
                  "window")

\* lines 86-91: none in the window, the first one after min_end
PlanCutAfter ==
    /\ PlanIterates
    /\ ScanWindow(silence_points, 1, MinEnd(current_start, min_segment),
                  IdealEnd(current_start, max_segment), None) = None
    /\ ScanAfter(silence_points, 1, MinEnd(current_start, min_segment)) # None
    /\ PlanAppend(BestCut(silence_points, current_start, min_segment, max_segment),
                  "after")

\* lines 94-95: no silence point at all after min_end
PlanCutHard ==
    /\ PlanIterates
    /\ ScanWindow(silence_points, 1, MinEnd(current_start, min_segment),
                  IdealEnd(current_start, max_segment), None) = None
    /\ ScanAfter(silence_points, 1, MinEnd(current_start, min_segment)) = None
    /\ PlanAppend(BestCut(silence_points, current_start, min_segment, max_segment),
                  "hard")

PlanNext ==
    \/ PlanEnter
    \/ PlanExit
    \/ PlanBreak
    \/ PlanCutWindow
    \/ PlanCutAfter
    \/ PlanCutHard

PlanSpec == PlanInit /\ [][PlanNext]_vars

\* the interpreter keeps running the loop
PlanFairSpec == PlanSpec /\ WF_vars(PlanNext)

\* ---- split_audio_file ----

\* line 110: the i-th element of cut_points + [None]
EndTime(cuts, i) == IF i <= Len(cuts) THEN cuts[i] ELSE None

\* lines 111-131: the ffmpeg command of one iteration and how it ended;
\* num is the index in the output file name, ss the -ss argument, t the -t
\* argument, which only a regular segment has
Extraction(start, num, end_time, ok) ==
    IF end_time = None
    THEN [num |-> num, ss |-> start, has_t |-> FALSE, t |-> 0, ok |-> ok]
    ELSE [num |-> num, ss |-> start, has_t |-> TRUE, t |-> end_time - start,
          ok |-> ok]

\* a failed extraction ending the loop
WriteAdvanceAbort(start, num, end_time, ok) ==
    IF end_time = None \/ ~ok
    THEN [stop |-> TRUE, start_time |-> start, segment_num |-> num]
    ELSE [stop |-> FALSE, start_time |-> end_time, segment_num |-> num + 1]

\* lines 133-137: what the iteration leaves for the next one
WriteAdvance(start, num, end_time, ok) ==
    IF end_time = None
    THEN [stop |-> TRUE, start_time |-> start, segment_num |-> num]
    ELSE [stop |-> FALSE, start_time |-> end_time, segment_num |-> num + 1]

\* the whole call; oks[i] tells whether the i-th ffmpeg run succeeds
RECURSIVE WriteLoop(_, _, _, _, _, _)
WriteLoop(cuts, oks, i, start, num, done) ==
    LET end_time == EndTime(cuts, i)
        adv == WriteAdvance(start, num, end_time, oks[i])
        now == Append(done, Extraction(start, num, end_time, oks[i]))
    IN IF adv.stop THEN now
       ELSE WriteLoop(cuts, oks, i + 1, adv.start_time, adv.segment_num, now)

split_audio_file(cuts, oks) == WriteLoop(cuts, oks, 1, 0, 0, <<>>)

WriteInit ==
    /\ w_cut_points \in UNION {[1..n -> 0..MaxCutTime] : n \in 0..MaxCuts}
    /\ start_time = 0
    /\ segment_num = 0
    /\ w_i = 1
    /\ attempts = <<>>
    /\ wpc = "loop"
    /\ PlanIdle
    /\ MainIdle

\* lines 110-137: one iteration of the for loop
WriteStep ==
    /\ wpc = "loop"
    /\ w_i <= Len(w_cut_points) + 1
    /\ \E ok \in BOOLEAN :
        LET end_time == EndTime(w_cut_points, w_i)
            adv == WriteAdvance(start_time, segment_num, end_time, ok)
        IN /\ attempts' = Append(attempts,
                                 Extraction(start_time, segment_num, end_time, ok))
           /\ start_time' = adv.start_time
           /\ segment_num' = adv.segment_num
           /\ w_i' = IF adv.stop THEN w_i ELSE w_i + 1
           /\ wpc' = IF adv.stop THEN "done" ELSE "loop"
    /\ UNCHANGED w_cut_points
    /\ UNCHANGED <<pvars, mvars>>

WriteNext ==
    \/ WriteStep

WriteSpec == WriteInit /\ [][WriteNext]_vars

\* ---- the __main__ block and main ----

Tools == <<"ffmpeg", "ffprobe">>

\* what get_audio_duration can return: None on a failed probe, else seconds
ProbeOutcomes == {None, 12, 15, 16, 40}

\* what detect_silence_points can return for a file of d seconds; a failed
\* ffmpeg run leaves no marker lines, which gives the empty list
DetectOutcomes(d) ==
    {sp \in {<<>>, <<14>>, <<6, 11, 14, 17, 22, 28, 33>>} :
        \A i \in 1..Len(sp) : sp[i] < d}

\* < for <=
FastPathStrict(d) == d < ShortFile

\* line 164: the file is short enough to copy whole
FastPath(d) == d <= ShortFile

\* break for continue
AfterFailedProbeBreak(i, n) == n + 1

\* lines 158-159: continue after a failed probe
AfterFailedProbe(i, n) == i + 1

Event(op, arg, ok) == [op |-> op, file |-> file_i, arg |-> arg, ok |-> ok]

Init ==
    /\ pc = "toolcheck"
    /\ tool_i = 1
    /\ missing = {}
    /\ exit_code = None
    /\ dir_created = FALSE
    /\ wav_files = 0
    /\ file_i = 0
    /\ m_duration = None
    /\ m_silence_points = <<>>
    /\ m_cut_points = <<>>
    /\ m_attempts = <<>>
    /\ log = <<>>
    /\ PlanIdle
    /\ WriteIdle

\* lines 190-195: one tool of the availability check
ToolCheck ==
    /\ pc = "toolcheck"
    /\ \E available \in BOOLEAN :
        IF available
        THEN /\ tool_i' = tool_i + 1
             /\ pc' = IF tool_i = Len(Tools) THEN "main" ELSE "toolcheck"
             /\ UNCHANGED <<missing, exit_code>>
        ELSE /\ missing' = missing \cup {Tools[tool_i]}
             /\ exit_code' = 1
             /\ pc' = "exit"
             /\ UNCHANGED tool_i
    /\ UNCHANGED <<dir_created, wav_files, file_i, m_duration, m_silence_points,
                   m_cut_points, m_attempts, log>>
    /\ UNCHANGED <<pvars, wvars>>

\* lines 141-151: makedirs, glob, return when there is no WAV file
MainStart ==
    /\ pc = "main"
    /\ dir_created' = TRUE
    /\ \E n \in 0..MaxFiles :
        /\ wav_files' = n
        /\ IF n = 0
           THEN /\ pc' = "exit"
                /\ exit_code' = 0
                /\ UNCHANGED file_i
           ELSE /\ pc' = "probe"
                /\ file_i' = 1
                /\ UNCHANGED exit_code
    /\ UNCHANGED <<tool_i, missing, m_duration, m_silence_points, m_cut_points,
                   m_attempts, log>>
    /\ UNCHANGED <<pvars, wvars>>

\* the for loop of line 153 moves to file next, or main returns (line 186)
GoToFile(next) ==
    /\ file_i' = next
    /\ IF next > wav_files
       THEN /\ pc' = "exit"
            /\ exit_code' = 0
       ELSE /\ pc' = "probe"
            /\ UNCHANGED exit_code

\* lines 157-164: probe the duration, skip the file when it fails
Probe ==
    /\ pc = "probe"
    /\ \E d \in ProbeOutcomes :
        /\ m_duration' = d
        /\ log' = Append(log, Event("probe", d, d # None))
        /\ IF d = None
           THEN GoToFile(AfterFailedProbe(file_i, wav_files))
           ELSE /\ pc' = IF FastPath(d) THEN "copy" ELSE "detect"
                /\ UNCHANGED <<file_i, exit_code>>
    /\ UNCHANGED <<tool_i, missing, dir_created, wav_files, m_silence_points,
                   m_cut_points, m_attempts>>
    /\ UNCHANGED <<pvars, wvars>>

\* lines 165-172: cp to split_<stem>_000.wav, a failure is only reported
Copy ==
    /\ pc = "copy"
    /\ \E ok \in BOOLEAN : log' = Append(log, Event("cp", 0, ok))
    /\ GoToFile(file_i + 1)
    /\ UNCHANGED <<tool_i, missing, dir_created, wav_files, m_duration,
                   m_silence_points, m_cut_points, m_attempts>>
    /\ UNCHANGED <<pvars, wvars>>

\* lines 175-177
Detect ==
    /\ pc = "detect"
    /\ \E sp \in DetectOutcomes(m_duration) :
        /\ m_silence_points' = sp
        /\ log' = Append(log, Event("detect", Len(sp), TRUE))
    /\ pc' = "plan"
    /\ UNCHANGED <<tool_i, missing, exit_code, dir_created, wav_files, file_i,
                   m_duration, m_cut_points, m_attempts>>
    /\ UNCHANGED <<pvars, wvars>>

\* lines 180-181
Plan ==
    /\ pc = "plan"
    /\ LET cuts == find_optimal_cut_points(m_duration, m_silence_points,
                                           DefaultMinSegment, DefaultMaxSegment)
       IN /\ m_cut_points' = cuts
          /\ log' = Append(log, Event("plan", Len(cuts), TRUE))
    /\ pc' = "write"
    /\ UNCHANGED <<tool_i, missing, exit_code, dir_created, wav_files, file_i,
                   m_duration, m_silence_points, m_attempts>>
    /\ UNCHANGED <<pvars, wvars>>

\* line 184, and the end of the loop body
Write ==
    /\ pc = "write"
    /\ \E oks \in [1..(Len(m_cut_points) + 1) -> BOOLEAN] :
        LET done == split_audio_file(m_cut_points, oks)
        IN /\ m_attempts' = done
           /\ log' = Append(log, Event("write", Len(done),
                                       \A k \in 1..Len(done) : done[k].ok))
    /\ GoToFile(file_i + 1)
    /\ UNCHANGED <<tool_i, missing, dir_created, wav_files, m_duration,
                   m_silence_points, m_cut_points>>
    /\ UNCHANGED <<pvars, wvars>>

Next ==
    \/ ToolCheck
    \/ MainStart
    \/ Probe
    \/ Copy
    \/ Detect
    \/ Plan
    \/ Write

Spec == Init /\ [][Next]_vars

\* ---- properties of find_optimal_cut_points ----

Range(f) == {f[i] : i \in DOMAIN f}
SetMax(S) == CHOOSE x \in S : \A y \in S : y <= x
SetMin(S) == CHOOSE x \in S : \A y \in S : x <= y
CeilDiv(a, b) == (a + b - 1) \div b

\* the spec's data model: silence points lie in [0, duration)
SilenceInRange ==
    \A i \in 1..Len(silence_points) :
        0 <= silence_points[i] /\ silence_points[i] < duration

\* this step is a loop iteration that appends a cut
AppendsCut == ppc = "loop" /\ Len(cut_points') = Len(cut_points) + 1

AllBranches == {"window", "after", "hard"} \subseteq Range(how)

\* C1: for duration > max_segment and ascending silence points within
\* [0, duration), the returned sequence is strictly increasing and every
\* element lies strictly between 0 and duration.
C1_ResultIncreasingInside ==
    (ppc = "done" /\ duration > max_segment /\ SilenceInRange) =>
        \A i \in 1..Len(result) :
            /\ 0 < result[i]
            /\ result[i] < duration
            /\ (i > 1 => result[i - 1] < result[i])

C1_Witness ==
    /\ ppc = "done"
    /\ duration > max_segment
    /\ SilenceInRange
    /\ Len(result) >= 3
    /\ AllBranches

\* C2: for every non-empty result, every gap between consecutive boundaries,
\* counting 0 and duration as boundaries, is >= min_segment, except gaps made
\* by the hard fallback, which equal max_segment.
C2_AllGapsAtLeastMin ==
    (ppc = "done" /\ result # <<>> /\ SilenceInRange) =>
        LET b == <<0>> \o result \o <<duration>>
        IN \A i \in 1..(Len(b) - 1) :
            \/ b[i + 1] - b[i] >= min_segment
            \/ /\ i <= Len(how)
               /\ how[i] = "hard"
               /\ b[i + 1] - b[i] = max_segment

\* C3: in every state of the planning loop each appended cut is at least
\* min_segment after the previous boundary, whichever branch produced it
\* (every segment but the tail is at least min_segment long).
C3_CutsAtLeastMinApart ==
    \A i \in 1..(Len(cut_points) - 1) :
        cut_points[i + 1] - cut_points[i] >= min_segment

C3_Witness ==
    /\ ppc = "loop"
    /\ AllBranches
    /\ \E i \in 1..(Len(cut_points) - 1) :
        cut_points[i + 1] - cut_points[i] = min_segment

\* C4: the planning loop terminates; every iteration that appends a cut moves
\* the cursor strictly forward, and the loop body runs at most
\* ceil(duration / min_segment) times.
C4_Terminates ==
    /\ <>(ppc = "done")
    /\ [](iters <= CeilDiv(duration, min_segment))
    /\ [][AppendsCut => current_start' > current_start]_vars

C4_Witness ==
    /\ ppc = "done"
    /\ iters >= 4
    /\ iters = CeilDiv(duration, min_segment)

C5_Input ==
    /\ duration = 40
    /\ silence_points = <<6, 11, 14, 17, 22, 28, 33>>
    /\ min_segment = 5
    /\ max_segment = 15

\* C5 as stated: duration 40, silence [6,11,14,17,22,28,33], min 5, max 15:
\* the cuts are chosen in the order 11, 22, 33, the result is [11, 22, 33]
\* and the tail 33..40 is 7 seconds long.
C5_WorkedExample ==
    C5_Input =>
        /\ Len(cut_points) <= 4
        /\ \A i \in 1..Len(cut_points) : cut_points[i] = <<0, 11, 22, 33>>[i]
        /\ ppc = "done" =>
            /\ result = <<11, 22, 33>>
            /\ duration - result[Len(result)] = 7

\* C5 amended: on that input the first cut is 14, the largest silence point
\* in [5, 15], the second is 28, the largest in [19, 29]; the result is
\* [14, 28] and the tail 28..40 is 12 seconds long.
C5_WorkedExampleAmended ==
    C5_Input =>
        /\ Len(cut_points) <= 3
        /\ \A i \in 1..Len(cut_points) : cut_points[i] = <<0, 14, 28>>[i]
        /\ ppc = "done" =>
            /\ result = <<14, 28>>
            /\ how = <<"window", "window">>
            /\ duration - result[Len(result)] = 12

C5_Witness ==
    /\ ppc = "done"
    /\ C5_Input
    /\ Len(result) = 2

\* C9: each appended cut is the largest silence point in
\* [min_end, ideal_end] when there is one, else the smallest silence point
\* beyond min_end when there is one, else ideal_end; with no silence points
\* the cuts are the multiples of max_segment below duration.
C9_SelectionRule ==
    /\ [][AppendsCut =>
            LET min_end == current_start + min_segment
                ideal_end == current_start + max_segment
                W == {s \in Range(silence_points) : min_end <= s /\ s <= ideal_end}
                A == {s \in Range(silence_points) : s > min_end}
            IN /\ current_start' = IF W # {} THEN SetMax(W)
                                   ELSE IF A # {} THEN SetMin(A)
                                   ELSE ideal_end
               /\ how'[Len(how')] = "hard" => A = {}]_vars
    /\ []((ppc = "done" /\ silence_points = <<>> /\ duration > max_segment) =>
            result = [k \in 1..((duration - 1) \div max_segment) |-> k * max_segment])

C9_Witness ==
    /\ ppc = "done"
    /\ AllBranches
    /\ Len(silence_points) = MaxSil
    /\ \E i \in 1..Len(how) :
        /\ how[i] = "window"
        /\ \E s \in Range(silence_points) :
            cut_points[i] + min_segment <= s /\ s < cut_points[i + 1]

C9_WitnessNoSilence ==
    /\ ppc = "done"
    /\ silence_points = <<>>
    /\ result = <<15, 30>>

\* C10: with silence points in [0, duration), a segment is longer than
\* max_segment only if it ends at a silence point taken by the second-stage
\* fallback (none lay in [start + min_segment, start + max_segment]); a
\* segment ending at a hard cut is exactly max_segment long; the tail is
\* never longer than max_segment.
C10_OverlongOnlyByFallback ==
    (ppc = "done" /\ SilenceInRange) =>
        /\ \A i \in 1..Len(how) :
            LET start == cut_points[i]
                len == cut_points[i + 1] - start
            IN /\ len > max_segment =>
                    /\ how[i] = "after"
                    /\ cut_points[i + 1] \in Range(silence_points)
                    /\ ~\E s \in Range(silence_points) :
                            start + min_segment <= s /\ s <= start + max_segment
               /\ how[i] = "hard" => len = max_segment
        /\ duration - (IF result = <<>> THEN 0 ELSE result[Len(result)])
                <= max_segment

C10_Witness ==
    /\ ppc = "done"
    /\ SilenceInRange
    /\ \E i \in 1..Len(how) :
        how[i] = "after" /\ cut_points[i + 1] - cut_points[i] > max_segment
    /\ \E i \in 1..Len(how) : how[i] = "hard"
    /\ duration - result[Len(result)] = max_segment

\* ---- properties of split_audio_file ----

\* C8: for a cut sequence of length n and any pattern of ffmpeg failures the
\* writer attempts n+1 extractions with file name indices 0..n; attempt i
\* starts at the previous cut (0 for the first) and lasts up to the next cut,
\* the last one has no duration; consecutive attempts are contiguous.
C8_AttemptsCoverFile ==
    LET n == Len(w_cut_points)
    IN /\ wpc = "loop" => Len(attempts) = w_i - 1 /\ w_i <= n + 1
       /\ wpc = "done" => Len(attempts) = n + 1
       /\ \A k \in 1..Len(attempts) :
            /\ attempts[k].num = k - 1
            /\ attempts[k].ss = IF k = 1 THEN 0 ELSE w_cut_points[k - 1]
            /\ attempts[k].has_t = (k <= n)
            /\ k <= n => attempts[k].t = w_cut_points[k] - attempts[k].ss
            /\ k < Len(attempts) =>
                    attempts[k].ss + attempts[k].t = attempts[k + 1].ss

C8_Witness ==
    /\ wpc = "done"
    /\ Len(w_cut_points) >= 2
    /\ ~attempts[1].ok
    /\ ~attempts[2].ok
    /\ attempts[Len(attempts)].ok
    /\ attempts[Len(attempts)].num = Len(w_cut_points)

\* ---- properties of the run ----

Probes == SelectSeq(log, LAMBDA e : e.op = "probe")
OfFile(f) == SelectSeq(log, LAMBDA e : e.file = f)
Ops(l) == [k \in 1..Len(l) |-> l[k].op]
IsPrefix(a, b) == Len(a) <= Len(b) /\ \A k \in 1..Len(a) : a[k] = b[k]

\* C6: only a missing tool ends the run early: it exits with code 1 before
\* the output directory is created and before any file is touched; otherwise,
\* whatever probes, detections and segment writes fail, a failed probe skips
\* only its file, every enumerated file is visited in turn and the run exits
\* with code 0.
C6_OnlyMissingToolAborts ==
    /\ (pc = "exit") = (exit_code # None)
    /\ exit_code \in {None, 0, 1}
    /\ (exit_code = 1) = (missing # {})
    /\ exit_code = 1 => ~dir_created /\ log = <<>>
    /\ exit_code = 0 =>
        /\ dir_created
        /\ Len(Probes) = wav_files
        /\ \A k \in 1..Len(Probes) : Probes[k].file = k
        /\ \A f \in 1..wav_files :
            IF OfFile(f)[1].ok THEN Len(OfFile(f)) > 1 ELSE Len(OfFile(f)) = 1
    /\ \A k \in 1..Len(log) :
        (log[k].op = "probe" /\ ~log[k].ok /\ k < Len(log)) =>
            /\ log[k + 1].op = "probe"
            /\ log[k + 1].file = log[k].file + 1

C6_Witness ==
    /\ pc = "exit"
    /\ exit_code = 0
    /\ wav_files >= 2
    /\ ~log[1].ok
    /\ \E k \in 1..Len(log) : log[k].op = "write" /\ ~log[k].ok
    /\ \E k \in 1..Len(log) : log[k].op = "detect" /\ log[k].arg = 0

\* C7: per file the probe runs first; a probed duration <= 15 is followed by
\* exactly one whole-file copy to index 000 and no detector, planner or
\* writer call; a duration > 15 is followed by the detector, the planner and
\* the writer, once each and in that order; a file is finished before the
\* next one is probed.
C7_PerFileOrder ==
    /\ \A k \in 1..(Len(log) - 1) :
        \/ log[k + 1].file = log[k].file
        \/ log[k + 1].file = log[k].file + 1 /\ log[k + 1].op = "probe"
    /\ \A f \in 1..wav_files :
        LET l == OfFile(f)
            full == IF l[1].arg = None THEN <<"probe">>
                    ELSE IF l[1].arg <= 15 THEN <<"probe", "cp">>
                    ELSE <<"probe", "detect", "plan", "write">>
        IN l # <<>> =>
            /\ l[1].op = "probe"
            /\ f = file_i => IsPrefix(Ops(l), full)
            /\ f < file_i => Ops(l) = full
            /\ \A k \in 1..Len(l) : l[k].op = "cp" => l[k].arg = 0

C7_Witness ==
    /\ pc = "exit"
    /\ wav_files >= 2
    /\ \E f \in 1..wav_files :
        OfFile(f)[1].arg = 15 /\ Ops(OfFile(f)) = <<"probe", "cp">>
    /\ \E f \in 1..wav_files :
        OfFile(f)[1].arg = 16 /\ Ops(OfFile(f)) = <<"probe", "detect", "plan", "write">>

====
